---- MODULE Spec2Model ----
(***************************************************************************)
(* A model of microbmp (src/src/lib.rs): Bitmap::new reads a whole file    *)
(* into a byte buffer, checks the "BM" signature, reinterprets fixed byte  *)
(* ranges of the buffer as integers of the host (transmute), adds the      *)
(* pixel-data offset and the region size to get `end`, and decodes the     *)
(* bytes buf[offset..end] into pixels according to bits-per-pixel.         *)
(*                                                                         *)
(* A u32 is kept as a pair of 16-bit halves [hi, lo], so that the full     *)
(* 32-bit range, its carry and its wrap-around are modelled exactly.       *)
(* Two properties of the build are left open, as the source leaves them    *)
(* open: the byte order of the target (transmute is a native-order         *)
(* reinterpretation) and whether `+` on u32 is checked (it panics on       *)
(* overflow in a debug build and wraps in a release build).                *)
(***************************************************************************)
EXTENDS Integers, Sequences, FiniteSets, TLC

VARIABLES
  target_endian,    \* byte order of the host the crate is built for
  overflow_checks,  \* TRUE: `+` panics on overflow (debug); FALSE: it wraps
  buf,              \* the Vec<u8> that Bitmap::new fills from the file
  pc,               \* position inside Bitmap::new
  result            \* what Bitmap::new gave: Ok(Bitmap), Err(..) or a panic

vars == <<target_endian, overflow_checks, buf, pc, result>>

----------------------------------------------------------------------------
(* Bounds of the input files.                                              *)

MaxPix == 8     \* longest pixel-data region placed in an input file
MaxSeed == 1    \* filler patterns for the bytes that are not chosen fields

----------------------------------------------------------------------------
(* Fixed-width integers.                                                   *)

Half == 256 * 256

U32(h, l) == [hi |-> h, lo |-> l]
U(n) == U32(0, n)
U32Max == U32(Half - 1, Half - 1)

U32Le(a, b) == a.hi < b.hi \/ (a.hi = b.hi /\ a.lo <= b.lo)

\* a u32 against a usize that is a length (`x as usize` keeps the value)
AsUsizeLe(a, n) == a.hi = 0 /\ a.lo <= n
AsUsize(a) == a.hi * Half + a.lo

\* u32 + u32: the wrapped sum and whether it overflowed
AddU32(a, b) ==
  LET l == a.lo + b.lo
      h == a.hi + b.hi + (l \div Half)
  IN  [value |-> U32(h % Half, l % Half), overflow |-> h >= Half]

\* transmute::<[u8; 4], u32>: the bytes in the host's order
TransmuteU32(bytes, endian) ==
  IF endian = "little"
  THEN U32(bytes[3] + 256 * bytes[4], bytes[1] + 256 * bytes[2])
  ELSE U32(bytes[2] + 256 * bytes[1], bytes[4] + 256 * bytes[3])

\* transmute::<[u8; 4], i32>: the same bits, two's complement
TransmuteI32(bytes, endian) ==
  LET u == TransmuteU32(bytes, endian)
  IN  IF u.hi >= Half \div 2
      THEN (u.hi - Half) * Half + u.lo
      ELSE u.hi * Half + u.lo

\* transmute::<[u8; 2], u16>
TransmuteU16(bytes, endian) ==
  IF endian = "little"
  THEN bytes[1] + 256 * bytes[2]
  ELSE bytes[2] + 256 * bytes[1]

----------------------------------------------------------------------------
(* Slices. Rust's buf[a..b] panics unless a <= b <= buf.len(); the bytes   *)
(* are numbered from 0 in the source and from 1 in a TLA+ sequence.        *)

InBounds(b, from, to) == from <= to /\ to <= Len(b)
Slice(b, from, to) == SubSeq(b, from + 1, to)

\* buf[offset as usize .. end as usize] is allowed
RangeOk(b, offset, end) == U32Le(offset, end) /\ AsUsizeLe(end, Len(b))

\* slice.chunks(4): consecutive groups of 4, the last one possibly shorter
Chunks(s, n) ==
  [i \in 1..((Len(s) + n - 1) \div n) |->
     SubSeq(s, (i - 1) * n + 1, IF i * n <= Len(s) THEN i * n ELSE Len(s))]

----------------------------------------------------------------------------
(* The types of the crate.                                                 *)

ABGR(a, b, g, r) == [tag |-> "ABGR", v |-> <<a, b, g, r>>]
PaletteColor(i) == [tag |-> "PaletteColor", v |-> <<i>>]

Ok(bitmap) == [kind |-> "Ok", bitmap |-> bitmap]
Err(e) == [kind |-> "Err", err |-> e]
Panic(why) == [kind |-> "Panic", why |-> why]
NoResult == [kind |-> "None"]

Magic == <<66, 77>>   \* b"BM"

\* MethodOf with the `5 => Png` arm lost: 5 falls through to Other(5)
MethodOfNoPngArm(code) ==
  IF code.hi # 0 \/ code.lo > 4 THEN [tag |-> "Other", code |-> code]
  ELSE CASE code.lo = 0 -> [tag |-> "None"]
         [] code.lo = 1 -> [tag |-> "Rle8Bit"]
         [] code.lo = 2 -> [tag |-> "Rle4Bit"]
         [] code.lo = 3 -> [tag |-> "Huffman1D"]
         [] code.lo = 4 -> [tag |-> "Jpeg"]

\* match transmute(bytes) { 0 => None, ..., n => Other(n) }
MethodOf(code) ==
  IF code.hi # 0 \/ code.lo > 5 THEN [tag |-> "Other", code |-> code]
  ELSE CASE code.lo = 0 -> [tag |-> "None"]
         [] code.lo = 1 -> [tag |-> "Rle8Bit"]
         [] code.lo = 2 -> [tag |-> "Rle4Bit"]
         [] code.lo = 3 -> [tag |-> "Huffman1D"]
         [] code.lo = 4 -> [tag |-> "Jpeg"]
         [] code.lo = 5 -> [tag |-> "Png"]

\* ChunkPixel with the channels taken in the opposite order
ChunkPixelReversed(slice) == ABGR(slice[4], slice[3], slice[2], slice[1])

\* the closure of the 24 | 32 arm
ChunkPixel(slice) == ABGR(slice[1], slice[2], slice[3], slice[4])

\* nibbles with the low nibble first
nibblesLowFirst(n) == <<n % 16, n \div 16>>

\* fn nibbles(n: u8) -> Vec<u8>: (n & 0xF0) >> 4, n & 0xF
nibbles(n) == <<n \div 16, n % 16>>

\* .iter().flat_map(nibbles).map(PaletteColor)
PalettePixels(s) ==
  [i \in 1..(2 * Len(s)) |-> PaletteColor(nibbles(s[(i + 1) \div 2])[2 - (i % 2)])]

\* EndOf with the region-size field taken as the end itself
EndOfRegionOnly(offset, region) == [value |-> region, overflow |-> FALSE]

\* let end: u32 = offset + <region size>
EndOf(offset, region) == AddU32(offset, region)

----------------------------------------------------------------------------
(* Bitmap::new after read_to_end, as a function of the buffer and build.   *)

\* the header ranges read before `end` is computed, in the order read
HeaderRanges == {<<2, 6>>, <<10, 14>>, <<14, 18>>, <<18, 22>>, <<22, 26>>,
                 <<28, 30>>, <<30, 34>>, <<34, 38>>}

Bitmap_new(b, endian, checks) ==
  IF ~InBounds(b, 0, 2) THEN Panic("index")
  ELSE IF Slice(b, 0, 2) # Magic THEN Err("InvalidBitmapData")
  ELSE IF \E r \in HeaderRanges : ~InBounds(b, r[1], r[2]) THEN Panic("index")
  ELSE
    LET size == TransmuteU32(Slice(b, 2, 6), endian)
        offset == TransmuteU32(Slice(b, 10, 14), endian)
        header_size == TransmuteU32(Slice(b, 14, 18), endian)
        pix_width == TransmuteI32(Slice(b, 18, 22), endian)
        pix_height == TransmuteI32(Slice(b, 22, 26), endian)
        bpp == TransmuteU16(Slice(b, 28, 30), endian)
        method == MethodOf(TransmuteU32(Slice(b, 30, 34), endian))
        sum == EndOf(offset, TransmuteU32(Slice(b, 34, 38), endian))
        end == sum.value
    IN
      IF sum.overflow /\ checks THEN Panic("overflow")
      ELSE IF ~InBounds(b, 46, 50) THEN Panic("index")
      ELSE
        LET colors == TransmuteU32(Slice(b, 46, 50), endian)
            header == [size |-> header_size, pix_width |-> pix_width,
                       pix_height |-> pix_height, bpp |-> bpp,
                       method |-> method, colors |-> colors]
            bitmap(pixel_data) ==
              [data |-> b, size |-> size, offset |-> offset,
               header |-> header, pixels |-> pixel_data]
        IN
          IF bpp \in {24, 32} THEN
            IF ~RangeOk(b, offset, end) THEN Panic("index")
            ELSE
              LET chunks == Chunks(Slice(b, AsUsize(offset), AsUsize(end)), 4)
              IN  IF \E i \in DOMAIN chunks : Len(chunks[i]) < 4
                  THEN Panic("index")
                  ELSE Ok(bitmap([i \in DOMAIN chunks |-> ChunkPixel(chunks[i])]))
          ELSE IF bpp = 4 THEN
            IF ~RangeOk(b, offset, end) THEN Panic("index")
            ELSE Ok(bitmap(PalettePixels(Slice(b, AsUsize(offset), AsUsize(end)))))
          ELSE Err("UnsupportedBitsPerPixel")

----------------------------------------------------------------------------
(* The files given to Bitmap::new.                                         *)

\* the four bytes of a u32 as a file holds them, low byte first or last
EncodeU32(u, enc) ==
  LET le == <<u.lo % 256, u.lo \div 256, u.hi % 256, u.hi \div 256>>
  IN  IF enc = "little" THEN le ELSE <<le[4], le[3], le[2], le[1]>>

EncodeU16(n, enc) ==
  IF enc = "little" THEN <<n % 256, n \div 256>> ELSE <<n \div 256, n % 256>>

\* the byte at (0-based) index j of filler pattern `seed`; pattern 0 is all zero
Fill(seed, j) == (seed * (29 * j + 171)) % 256

FileBytes(p) ==
  [i \in 1..p.len |->
     LET j == i - 1
     IN  CASE j \in 0..1 -> p.magic[j + 1]
           [] j \in 2..5 -> EncodeU32(p.fsize, p.enc)[j - 1]
           [] j \in 10..13 -> EncodeU32(p.off, p.enc)[j - 9]
           [] j \in 28..29 -> EncodeU16(p.bpp, p.enc)[j - 27]
           [] j \in 30..33 -> EncodeU32(p.meth, p.enc)[j - 29]
           [] j \in 34..37 -> EncodeU32(p.dsz, p.enc)[j - 33]
           [] OTHER -> Fill(p.seed, j)]

PixelStart == 50 + 4    \* where the input files put their pixel data
MaxLen == PixelStart + MaxPix

\* whole files: every pixel-data length, both encodings, overflowing sums
FullInputs ==
  [len : 50..MaxLen, magic : {Magic},
   enc : {"little", "big"}, fsize : {U(0), U(MaxLen)},
   off : {U(PixelStart), U32Max},
   bpp : {4, 24, 32, 8}, meth : {U(0), U(7)},
   dsz : {U(n) : n \in 0..MaxPix} \cup {U(PixelStart + 4), U32Max},
   seed : 0..MaxSeed]

\* every compression method code
MethodInputs ==
  [len : {MaxLen}, magic : {Magic}, enc : {"little", "big"},
   fsize : {U(MaxLen)}, off : {U(PixelStart)}, bpp : {4, 32},
   meth : {U(n) : n \in 0..6} \cup {U32(256, 3), U32Max},
   dsz : {U(MaxPix)}, seed : 0..MaxSeed]

\* files cut short inside the header
ShortInputs ==
  [len : 0..49, magic : {Magic}, enc : {"little"}, fsize : {U(MaxLen)},
   off : {U(PixelStart), U32Max}, bpp : {32}, meth : {U(0)},
   dsz : {U(MaxPix), U32Max}, seed : {0}]

\* files with another signature
BadMagicInputs ==
  [len : {0, 1, 2, 3, 49, 50, MaxLen},
   magic : {<<66, 78>>, <<65, 77>>, <<77, 66>>, <<0, 0>>},
   enc : {"little"}, fsize : {U(MaxLen)},
   off : {U(PixelStart), U32Max}, bpp : {8, 32}, meth : {U(0)},
   dsz : {U(MaxPix), U32Max}, seed : {0}]

Inputs == FullInputs \cup MethodInputs \cup ShortInputs \cup BadMagicInputs

----------------------------------------------------------------------------
(* The state machine: one call of Bitmap::new.                             *)

Init ==
  /\ target_endian \in {"little", "big"}
  /\ overflow_checks \in BOOLEAN
  /\ buf = <<>>
  /\ pc = "start"
  /\ result = NoResult

\* try!(file.read_to_end(&mut buf)) succeeds: buf holds the file
ReadToEnd ==
  /\ pc = "start"
  /\ \E p \in Inputs : buf' = FileBytes(p)
  /\ pc' = "read"
  /\ UNCHANGED <<target_endian, overflow_checks, result>>

\* try!(file.read_to_end(&mut buf)) fails: the io::Error is returned wrapped
ReadToEndFails ==
  /\ pc = "start"
  /\ result' = Err("BitmapIOError")
  /\ pc' = "failed"
  /\ UNCHANGED <<target_endian, overflow_checks, buf>>

\* the rest of Bitmap::new
DecodeBuffer ==
  /\ pc = "read"
  /\ result' = Bitmap_new(buf, target_endian, overflow_checks)
  /\ pc' = "done"
  /\ UNCHANGED <<target_endian, overflow_checks, buf>>

Next == ReadToEnd \/ ReadToEndFails \/ DecodeBuffer

Spec == Init /\ [][Next]_vars

----------------------------------------------------------------------------
(* What the claims speak of: the finished call, and the header fields of   *)
(* the buffer as the build reads them.                                     *)

Decoded == pc = "done"
Returned == pc = "done" /\ result.kind = "Ok"

HasMagic == Len(buf) >= 2 /\ buf[1] = 66 /\ buf[2] = 77
FullHeader == Len(buf) >= 50

Field32(b, at) == TransmuteU32(SubSeq(b, at + 1, at + 4), target_endian)
Field16(b, at) == TransmuteU16(SubSeq(b, at + 1, at + 2), target_endian)

OffsetField == Field32(buf, 10)
RegionField == Field32(buf, 34)
BppField == Field16(buf, 28)
RegionSum == AddU32(OffsetField, RegionField)

\* the pixel-data region [offset, end) lies inside the buffer
RegionInside ==
  /\ ~RegionSum.overflow
  /\ U32Le(OffsetField, RegionSum.value)
  /\ AsUsizeLe(RegionSum.value, Len(buf))

\* its first byte (0-based) and its length, when it lies inside the buffer
RegionStart == OffsetField.lo
RegionLen == RegionSum.value.lo - OffsetField.lo

\* little-endian readings of the buffer, whatever the host
LE32(b, at) == U32(b[at + 3] + 256 * b[at + 4], b[at + 1] + 256 * b[at + 2])
LE16(b, at) == b[at + 1] + 256 * b[at + 2]
LEI32(b, at) ==
  IF b[at + 4] >= 128
  THEN (LE32(b, at).hi - Half) * Half + LE32(b, at).lo
  ELSE LE32(b, at).hi * Half + LE32(b, at).lo

----------------------------------------------------------------------------
\* C1: a 24/32bpp buffer whose pixel-data region has length 4k+r, 0<r<4,
\* decodes successfully to exactly k pixels (the r trailing bytes dropped).
C1_TrailingBytesDropped ==
  (Decoded /\ HasMagic /\ FullHeader /\ BppField \in {24, 32}
     /\ RegionInside /\ RegionLen % 4 # 0)
  => (result.kind = "Ok" /\ Len(result.bitmap.pixels) = RegionLen \div 4)

\* C2: a "BM" buffer of 2..49 bytes makes Bitmap::new return an error value;
\* it neither aborts nor returns a Bitmap.
C2_ShortBufferReturnsError ==
  (Decoded /\ HasMagic /\ Len(buf) \in 2..49) => result.kind = "Err"

\* C3: a buffer of any length (0 and 1 included) whose first two bytes are
\* not "BM" makes Bitmap::new return Err(InvalidBitmapData).
C3_BadMagicIsInvalidBitmapData ==
  (Decoded /\ ~HasMagic) => result = Err("InvalidBitmapData")

\* C4: a "BM" buffer of at least 50 bytes whose bits-per-pixel is not 4, 24
\* or 32 makes Bitmap::new return Err(UnsupportedBitsPerPixel), whatever the
\* offset and region-size fields hold.
C4_OtherBppIsUnsupported ==
  (Decoded /\ HasMagic /\ FullHeader /\ BppField \notin {4, 24, 32})
  => result = Err("UnsupportedBitsPerPixel")

\* C5: every returned Bitmap has offset <= size, and offset and size are both
\* no greater than the length of the retained data.
C5_OffsetSizeWithinData ==
  Returned =>
    /\ U32Le(result.bitmap.offset, result.bitmap.size)
    /\ AsUsizeLe(result.bitmap.size, Len(result.bitmap.data))
    /\ AsUsizeLe(result.bitmap.offset, Len(result.bitmap.data))

\* C6: a 24/32bpp buffer whose pixel-data region lies inside the buffer and
\* has length 4k decodes to exactly k pixels, pixel i being ABGR of the bytes
\* offset+4i .. offset+4i+3 in that order.
C6_AbgrGroupsInOrder ==
  (Decoded /\ HasMagic /\ FullHeader /\ BppField \in {24, 32}
     /\ RegionInside /\ RegionLen % 4 = 0)
  => /\ result.kind = "Ok"
     /\ Len(result.bitmap.pixels) = RegionLen \div 4
     /\ \A i \in 0..(RegionLen \div 4 - 1) :
          /\ result.bitmap.pixels[i + 1].tag = "ABGR"
          /\ \A c \in 0..3 :
               result.bitmap.pixels[i + 1].v[c + 1] = buf[RegionStart + 4 * i + c + 1]

C6_Witness ==
  /\ Decoded /\ HasMagic /\ FullHeader /\ BppField = 24
  /\ RegionInside /\ RegionLen = 8
  /\ result.kind = "Ok"
  /\ Len(result.bitmap.pixels) = 2
  /\ result.bitmap.pixels[2].v[1] # result.bitmap.pixels[2].v[4]

\* C7: a 4bpp buffer whose pixel-data region lies inside the buffer and has
\* length n decodes to exactly 2n PaletteColor pixels: the high nibble of
\* byte offset+i, then its low nibble; every index is in 0..15.
C7_NibblesHighThenLow ==
  (Decoded /\ HasMagic /\ FullHeader /\ BppField = 4 /\ RegionInside)
  => /\ result.kind = "Ok"
     /\ Len(result.bitmap.pixels) = 2 * RegionLen
     /\ \A i \in 0..(RegionLen - 1) :
          /\ result.bitmap.pixels[2 * i + 1] =
               [tag |-> "PaletteColor", v |-> <<buf[RegionStart + i + 1] \div 16>>]
          /\ result.bitmap.pixels[2 * i + 2] =
               [tag |-> "PaletteColor", v |-> <<buf[RegionStart + i + 1] % 16>>]
     /\ \A j \in DOMAIN result.bitmap.pixels :
          result.bitmap.pixels[j].v[1] \in 0..15

C7_Witness ==
  /\ Decoded /\ HasMagic /\ FullHeader /\ BppField = 4
  /\ RegionInside /\ RegionLen >= 2
  /\ result.kind = "Ok"
  /\ Len(result.bitmap.pixels) = 2 * RegionLen
  /\ result.bitmap.pixels[1].v[1] # result.bitmap.pixels[2].v[1]

\* C8: in every returned Bitmap each numeric field is the little-endian
\* reading of its byte range, whatever the byte order of the host.
C8_FieldsLittleEndian ==
  Returned =>
    /\ result.bitmap.size = LE32(buf, 2)
    /\ result.bitmap.offset = LE32(buf, 10)
    /\ result.bitmap.header.size = LE32(buf, 14)
    /\ result.bitmap.header.pix_width = LEI32(buf, 18)
    /\ result.bitmap.header.pix_height = LEI32(buf, 22)
    /\ result.bitmap.header.bpp = LE16(buf, 28)
    /\ result.bitmap.header.colors = LE32(buf, 46)

\* the buffer with other bytes at [30,34)
WithMethodBytes(b, m) ==
  [i \in 1..Len(b) |-> IF i \in 31..34 THEN m[i - 30] ELSE b[i]]

AltMethodBytes ==
  {<<c, 0, 0, 0>> : c \in 0..7} \cup {<<0, 0, 0, c>> : c \in 1..7}
    \cup {<<255, 255, 255, 255>>}

SameOutcome(r1, r2) ==
  /\ r1.kind = r2.kind
  /\ r1.kind = "Ok" => r1.bitmap.pixels = r2.bitmap.pixels
  /\ r1.kind = "Err" => r1.err = r2.err

\* C9: in every returned Bitmap header.method is a total mapping of the code
\* c read at [30,34): 0..5 give None, Rle8Bit, Rle4Bit, Huffman1D, Jpeg, Png,
\* any other c gives Other(c); Other(n) never has n in 0..5; and the code
\* changes neither the pixels nor whether the decode succeeds.
C9_MethodMapping ==
  /\ Returned =>
       LET c == Field32(buf, 30)
           m == result.bitmap.header.method
       IN  /\ c = U(0) => m = [tag |-> "None"]
           /\ c = U(1) => m = [tag |-> "Rle8Bit"]
           /\ c = U(2) => m = [tag |-> "Rle4Bit"]
           /\ c = U(3) => m = [tag |-> "Huffman1D"]
           /\ c = U(4) => m = [tag |-> "Jpeg"]
           /\ c = U(5) => m = [tag |-> "Png"]
           /\ c \notin {U(n) : n \in 0..5} => m = [tag |-> "Other", code |-> c]
           /\ m.tag = "Other" => m.code \notin {U(n) : n \in 0..5}
  /\ (Decoded /\ Len(buf) >= 34) =>
       \A alt \in AltMethodBytes :
         SameOutcome(result,
                     Bitmap_new(WithMethodBytes(buf, alt), target_endian, overflow_checks))

C9_Witness ==
  /\ Returned
  /\ result.bitmap.header.method.tag = "Other"
  /\ result.bitmap.header.method.code = U(6)
  /\ Len(result.bitmap.pixels) > 0

\* the source bytes a pixel sequence stands for
PixelBytes(px) ==
  IF Len(px) = 0 THEN <<>>
  ELSE IF px[1].tag = "ABGR"
  THEN [i \in 1..(4 * Len(px)) |-> px[(i + 3) \div 4].v[((i - 1) % 4) + 1]]
  ELSE [i \in 1..(Len(px) \div 2) |-> 16 * px[2 * i - 1].v[1] + px[2 * i].v[1]]

\* C10: whenever a Bitmap is returned, offset + region size neither exceeded
\* the u32 range nor the buffer length, offset <= end <= len(data), and the
\* pixels were decoded from exactly the bytes [offset, offset + region size).
C10_EndNeverWrapped ==
  Returned =>
    LET data == result.bitmap.data
        offset == result.bitmap.offset
        region == Field32(data, 34)
        sum == AddU32(offset, region)
    IN  /\ ~sum.overflow
        /\ AsUsizeLe(sum.value, Len(data))
        /\ U32Le(offset, sum.value)
        /\ PixelBytes(result.bitmap.pixels) =
             SubSeq(data, offset.lo + 1, offset.lo + region.lo)

C10_Witness ==
  /\ Returned
  /\ Len(result.bitmap.pixels) > 0
  /\ AddU32(result.bitmap.offset, Field32(buf, 34)).value = U(Len(buf))

====
